---- MODULE Spec2Model ----
(***************************************************************************)
(* State-machine model of oregon-thgn801.ino: the Oregon V3 payload        *)
(* builder and its two checksums, the Manchester bit modulator and the     *)
(* polling scheduler of loop().                                            *)
(*                                                                         *)
(* Temperatures are integers in tenths of a degree Celsius.  Buffers are   *)
(* functions from the C index 0..12 to a byte.  A uint32_t is a pair of    *)
(* 16-bit words; the timer holds the two 32-bit counters micros() and      *)
(* millis() read by the program.                                           *)
(***************************************************************************)
EXTENDS Integers, Sequences, FiniteSets, TLC

VARIABLES
    channel,     \* V3_CHANNEL, the build-time channel number
    rcode,       \* static uint8_t rcode
    t_temp,      \* static float t_temp, in tenths of a degree
    t_hum,       \* static uint8_t t_hum
    payload,     \* static uint8_t payload[V3_TX_BYTES] of payload_thgn801
    seconds,     \* loop(): static uint32_t seconds
    lastMillis,  \* loop(): static uint32_t lastMillis
    lastTX,      \* loop(): static uint32_t lastTX
    tx_pending,  \* loop(): static bool tx_pending
    txMicros,    \* manchester_encode_v3(): static uint32_t txMicros
    txInit,      \* whether the static txMicros has been initialised
    idx,         \* send_data_v3(): the byte index i
    bitI,        \* manchester_encode_v3(): the loop counter i
    bitMask,     \* manchester_encode_v3(): uint8_t bitMask
    clock,       \* the timer: [us |-> micros(), ms |-> millis(), frac |-> us within the ms]
    line,        \* the levels written to RF433_TX_PIN in the current frame
    wait,        \* the last argument of delayMicroseconds() at line 100/102
    late,        \* whether micros() had passed txMicros when wait was computed
    txCount,     \* number of transmissions started
    txDone,      \* number of transmissions completed
    lastTxSec,   \* value of seconds when the last transmission started
    nib,         \* payloadNibbles argument of a direct checksum call
    csum,        \* value returned by that oregon_checksum_v3 call
    ccrc,        \* value returned by that crc8_checksum_v3 call
    pc           \* position of the program

cfgVars   == <<channel, rcode>>
readVars  == <<t_temp, t_hum>>
schedVars == <<seconds, lastMillis, lastTX, tx_pending>>
modVars   == <<txMicros, txInit, idx, bitI, bitMask, line, wait, late>>
histVars  == <<txCount, txDone, lastTxSec>>
fnVars    == <<nib, csum, ccrc>>
vars == <<cfgVars, readVars, payload, schedVars, modVars, histVars, fnVars, clock, pc>>

----------------------------------------------------------------------------
(* Program constants (#define lines 19..27)                                *)

V3_CHANNEL == 1
V3_PAYLOAD_NIBBLES == 15
V3_TX_INTERVAL_SECS == 53
V3_TX_BYTES == 13
V3_PULSE_LENGHT_US == 488
V3_PULSE_SHORTEN_US == 134

\* (V3_PULSE_LENGHT_US * V3_PULSE_TUNING) - V3_PULSE_SHORTEN_US with
\* V3_PULSE_TUNING = 1.1, converted to the unsigned int parameter of
\* delayMicroseconds(): 536.8 - 134 = 402.8, truncated.
PulseOnUs == (V3_PULSE_LENGHT_US * 11) \div 10 - V3_PULSE_SHORTEN_US

LOW  == 0
HIGH == 1

----------------------------------------------------------------------------
(* Fixed-width arithmetic                                                  *)

U8(x)  == x % 256

\* A uint32_t is a pair <<high, low>> of 16-bit words.
Half == 65536
W32(n) == <<(n \div Half) % Half, n % Half>>          \* of a number below 2^31

\* a + n for a number n >= 0 below 2^31, modulo 2^32
Add32(a, n) ==
    LET lo == a[2] + (n % Half)
        hi == a[1] + (n \div Half) + (lo \div Half)
    IN  <<hi % Half, lo % Half>>

\* a - b, modulo 2^32
Sub32(a, b) ==
    LET lo == a[2] - b[2]
        hi == a[1] - b[1] - (IF lo < 0 THEN 1 ELSE 0)
    IN  <<(hi + Half) % Half, (lo + Half) % Half>>

\* a > n for a number n below 2^16
Gt32(a, n) == a[1] > 0 \/ a[2] > n

\* the value of a, when it is below 2^31
Val32(a) == a[1] * Half + a[2]

BitOf(x, k) == (x \div (2 ^ k)) % 2

Nibble == 0 .. 15

\* the bitwise operators of C on two nibbles, tabulated bit by bit
AndNib == [a \in Nibble |-> [b \in Nibble |->
             BitOf(a, 0) * BitOf(b, 0) + 2 * (BitOf(a, 1) * BitOf(b, 1))
             + 4 * (BitOf(a, 2) * BitOf(b, 2)) + 8 * (BitOf(a, 3) * BitOf(b, 3))]]

XorNib == [a \in Nibble |-> [b \in Nibble |->
             ((BitOf(a, 0) + BitOf(b, 0)) % 2) + 2 * ((BitOf(a, 1) + BitOf(b, 1)) % 2)
             + 4 * ((BitOf(a, 2) + BitOf(b, 2)) % 2) + 8 * ((BitOf(a, 3) + BitOf(b, 3)) % 2)]]

\* a & b, a | b and a ^ b on bytes
And8(a, b) == 16 * AndNib[a \div 16][b \div 16] + AndNib[a % 16][b % 16]
Xor8(a, b) == 16 * XorNib[a \div 16][b \div 16] + XorNib[a % 16][b % 16]
Or8(a, b) == And8(a, b) + Xor8(a, b)

\* ((x & 0x0F) << 4) | ((x & 0xF0) >> 4)
SwapNibbles(x) == Or8(U8(And8(x, 15) * 16), And8(x, 240) \div 16)

BufIndex == 0 .. (V3_TX_BYTES - 1)
ZeroBuf == [i \in BufIndex |-> 0]

----------------------------------------------------------------------------
(* crc8_checksum_v3, lines 43..64                                          *)

CrcRoundDropPoly(crc) == U8(crc * 2)

\* one pass of the inner loop body: if (crc & 0x80) crc = (crc << 1) ^ 0x07;
\* else crc <<= 1;  (the result is stored in a uint8_t)
CrcRound(crc) ==
    IF And8(crc, 128) # 0 THEN Xor8(U8(crc * 2), 7) ELSE U8(crc * 2)

\* for (j = 0; j < 4; j++) ...
CrcShift4(crc) == CrcRound(CrcRound(CrcRound(CrcRound(crc))))

CrcNibbleInSwapped(buf, n, i, crc) ==
    IF i < n + 7
    THEN IF (i % 2) = 0
         THEN Xor8(crc, And8(buf[i \div 2], 15))
         ELSE Xor8(crc, buf[i \div 2] \div 16)
    ELSE crc

\* lines 48..53: the nibble XORed in at index i, none in the trailing pass
CrcNibbleIn(buf, n, i, crc) ==
    IF i < n + 7
    THEN IF (i % 2) = 0
         THEN Xor8(crc, buf[i \div 2] \div 16)
         ELSE Xor8(crc, And8(buf[i \div 2], 15))
    ELSE crc

RECURSIVE CrcLoop(_, _, _, _)
\* for (i = 7; i <= payloadNibbles + 7; i++); crc is a uint8_t, never negative
CrcLoop(buf, n, i, crc) ==
    IF i <= n + 7 /\ crc >= 0
    THEN CrcLoop(buf, n, i + 1, CrcShift4(CrcNibbleIn(buf, n, i, crc)))
    ELSE crc

CrcFromPreamble(buf, n) == SwapNibbles(CrcLoop(buf, n, 5, 0))

crc8_checksum_v3(buf, n) == SwapNibbles(CrcLoop(buf, n, 7, 0))

----------------------------------------------------------------------------
(* oregon_checksum_v3, lines 69..84                                        *)

\* (28 + payloadNibbles*4) / 8
OregonEnd(n) == (28 + n * 4) \div 8

RECURSIVE OregonSum(_, _, _, _)
\* for (i = 4; i < OregonEnd; i++) checksum += (payload[i] >> 4) + (payload[i] & 0xF);
\* checksum is a uint8_t, never negative
OregonSum(buf, n, i, sum) ==
    IF i < OregonEnd(n) /\ sum >= 0
    THEN OregonSum(buf, n, i + 1, U8(sum + (buf[i] \div 16) + And8(buf[i], 15)))
    ELSE sum

OregonTailOdd(buf, n, sum) ==
    IF (n % 2) = 1 THEN U8(sum + (buf[OregonEnd(n)] \div 16)) ELSE sum

\* lines 80..81
OregonTail(buf, n, sum) ==
    IF (n % 2) = 0 THEN U8(sum + (buf[OregonEnd(n)] \div 16)) ELSE sum

oregon_checksum_v3(buf, n) ==
    SwapNibbles(OregonTail(buf, n, OregonSum(buf, n, 4, And8(buf[3], 15))))

----------------------------------------------------------------------------
(* payload_thgn801, lines 121..172                                         *)

Abs(x) == IF x < 0 THEN 0 - x ELSE x

\* memset(buf, val, n)
Memset(buf, val, n) == [i \in DOMAIN buf |-> IF i < n THEN val ELSE buf[i]]

\* t10 = abs(tempC * 10.001), stored in a uint16_t: with tempC = t/10 the
\* product is t * 10001 / 10000, truncated toward zero by the conversion.
T10(t) == ((Abs(t) * 10001) \div 10000) % 65536

HeaderNoClamp(buf, ch, r) ==
    LET p0 == Memset(buf, 0, V3_TX_BYTES)
        p1 == Memset(p0, 255, 3)
        p2 == [p1 EXCEPT ![3] = 160]
        p3 == [p2 EXCEPT ![3] = Or8(@, 15), ![4] = 130, ![5] = 64]
        p4 == [p3 EXCEPT ![5] = Or8(@, ch)]
    IN  [p4 EXCEPT ![6] = r, ![7] = 0]

HeaderStale(buf, ch, r) ==
    LET p2 == [Memset(buf, 255, 3) EXCEPT ![3] = 160]
        p3 == [p2 EXCEPT ![3] = Or8(@, 15), ![4] = 130, ![5] = 64]
        p4 == [p3 EXCEPT ![5] = Or8(@, IF ch > 15 THEN 15 ELSE ch)]
    IN  [p4 EXCEPT ![6] = r]

\* lines 134..152: clear, preamble, sync, sensor id, channel, rolling code, flag
Header(buf, ch, r) ==
    LET p0 == Memset(buf, 0, V3_TX_BYTES)
        p1 == Memset(p0, 255, 3)
        p2 == [p1 EXCEPT ![3] = 160]
        p3 == [p2 EXCEPT ![3] = Or8(@, 15), ![4] = 130, ![5] = 64]
        p4 == [p3 EXCEPT ![5] = Or8(@, IF ch > 15 THEN 15 ELSE ch)]
    IN  [p4 EXCEPT ![6] = r, ![7] = 0]

TemperatureMsdFirst(buf, t) ==
    LET t10 == T10(t)
        p1  == [buf EXCEPT ![7] = Or8(@, And8(t10 % 10, 15))]
        p2  == [p1 EXCEPT ![8] = Or8(U8(((t10 \div 100) % 10) * 16),
                                     And8((t10 \div 10) % 10, 15))]
    IN  [p2 EXCEPT ![9] = IF t < 0 THEN 128 ELSE 0]

\* lines 156..159: the three temperature digits and the sign
Temperature(buf, t) ==
    LET t10 == T10(t)
        p1  == [buf EXCEPT ![7] = Or8(@, And8(t10 % 10, 15))]
        p2  == [p1 EXCEPT ![8] = Or8(U8(((t10 \div 10) % 10) * 16),
                                     And8(t10 \div 100, 15))]
    IN  [p2 EXCEPT ![9] = IF t < 0 THEN 128 ELSE 0]

\* lines 162..163: the two humidity digits
Humidity(buf, h) ==
    LET p1 == [buf EXCEPT ![9] = Or8(@, And8(h % 10, 15))]
    IN  [p1 EXCEPT ![10] = U8(((h \div 10) % 10) * 16)]

\* lines 166..169: the two checksum bytes, the second computed on the buffer
\* that already holds the first
Checksums(buf) ==
    LET p1 == [buf EXCEPT ![11] = oregon_checksum_v3(buf, V3_PAYLOAD_NIBBLES)]
    IN  [p1 EXCEPT ![12] = crc8_checksum_v3(p1, V3_PAYLOAD_NIBBLES)]

\* The buffer payload_thgn801 returns when the static buffer holds buf.
payload_thgn801(buf, ch, r, t, h) ==
    Checksums(Humidity(Temperature(Header(buf, ch, r), t), h))

----------------------------------------------------------------------------
(* Bounds of the model                                                     *)

MaxTenths == 999       \* temperatures range over -MaxTenths..MaxTenths
MaxChannel == 17       \* configured channels range over 0..MaxChannel
MaxSample == 8         \* number of patterned buffer contents
MaxNibbles == 18       \* payloadNibbles arguments range over 0..MaxNibbles

Temps == (0 - MaxTenths) .. MaxTenths
Hums == 0 .. 255                 \* uint8_t hum
RCodes == 0 .. 255               \* uint8_t rollingCode
Channels == 0 .. MaxChannel
NibbleCounts == 0 .. MaxNibbles

TFew == {-15, 0, 271}
HFew == {0, 20, 100}

\* a patterned 13-byte buffer content
SampleBuf(s) == [i \in BufIndex |-> ((i + 1) * (i + s) * (16 * s + 11) + 7 * s) % 256]
SampleBufs == {SampleBuf(s) : s \in 1 .. MaxSample}

\* what an earlier call of payload_thgn801 left in the static buffer
HistArgs == {<<1, -15, 20>>, <<165, 271, 99>>, <<253, -999, 100>>}
HistBufs == {payload_thgn801(ZeroBuf, V3_CHANNEL, a[1], a[2], a[3]) : a \in HistArgs}
InitBufs == {ZeroBuf} \cup HistBufs \cup SampleBufs

Case(ch, r, t, h, buf, n) == [ch |-> ch, r |-> r, t |-> t, h |-> h, buf |-> buf, n |-> n]

\* The inputs of the function-level specification: each argument swept over
\* its whole range with the others taken from a few values.
FnCases ==
    {Case(V3_CHANNEL, 0, t, h, ZeroBuf, V3_PAYLOAD_NIBBLES) : t \in Temps, h \in HFew}
    \cup {Case(V3_CHANNEL, 0, t, h, ZeroBuf, V3_PAYLOAD_NIBBLES) : t \in TFew, h \in Hums}
    \cup {Case(V3_CHANNEL, r, -15, 20, ZeroBuf, V3_PAYLOAD_NIBBLES) : r \in RCodes}
    \cup {Case(ch, 165, 271, 99, ZeroBuf, V3_PAYLOAD_NIBBLES) : ch \in Channels}
    \cup {Case(V3_CHANNEL, 165, t, 47, buf, n) : t \in TFew, buf \in InitBufs, n \in NibbleCounts}

----------------------------------------------------------------------------
(* Function-level specification: the inputs are drawn in the initial state *)
(* and the actions call payload_thgn801 and the two checksum functions.    *)

FnInit ==
    /\ \E c \in FnCases :
          /\ channel = c.ch
          /\ rcode = c.r
          /\ t_temp = c.t
          /\ t_hum = c.h
          /\ payload = c.buf
          /\ nib = c.n
    /\ csum = 0
    /\ ccrc = 0
    /\ seconds = 0
    /\ lastMillis = W32(0)
    /\ lastTX = W32(0)
    /\ tx_pending = TRUE
    /\ txMicros = W32(0)
    /\ txInit = FALSE
    /\ idx = 0
    /\ bitI = 0
    /\ bitMask = 0
    /\ line = <<>>
    /\ wait = W32(0)
    /\ late = FALSE
    /\ txCount = 0
    /\ txDone = 0
    /\ lastTxSec = 0
    /\ clock = [us |-> W32(0), ms |-> W32(0), frac |-> 0]
    /\ pc = "fn"

\* payload_thgn801(rcode, t_temp, t_hum) on the buffer as it is
FnBuild ==
    /\ pc = "fn"
    /\ payload' = payload_thgn801(payload, channel, rcode, t_temp, t_hum)
    /\ pc' = "built"
    /\ UNCHANGED <<cfgVars, readVars, schedVars, modVars, histVars, fnVars, clock>>

\* a second call with the same arguments
FnRebuild ==
    /\ pc = "built"
    /\ payload' = payload_thgn801(payload, channel, rcode, t_temp, t_hum)
    /\ pc' = "rebuilt"
    /\ UNCHANGED <<cfgVars, readVars, schedVars, modVars, histVars, fnVars, clock>>

\* oregon_checksum_v3(payload, nib) and crc8_checksum_v3(payload, nib)
FnChecksum ==
    /\ pc \in {"fn", "built"}
    /\ csum' = oregon_checksum_v3(payload, nib)
    /\ ccrc' = crc8_checksum_v3(payload, nib)
    /\ pc' = IF pc = "fn" THEN "summed" ELSE "builtsummed"
    /\ UNCHANGED <<cfgVars, readVars, payload, schedVars, modVars, histVars, nib, clock>>

FnNext == FnBuild \/ FnRebuild \/ FnChecksum

SpecFn == FnInit /\ [][FnNext]_vars

----------------------------------------------------------------------------
(* The timer                                                               *)

\* the timer after d more microseconds (d below 2^31)
Advance(c, d) ==
    [us   |-> Add32(c.us, d),
     ms   |-> Add32(c.ms, (c.frac + d) \div 1000),
     frac |-> (c.frac + d) % 1000]

\* delay(250) in setup(), line 207
SetupDelayMs == 250

----------------------------------------------------------------------------
(* manchester_encode_v3, lines 90..117                                     *)

\* txMicros - micros() < 0, line 99: both operands are uint32_t, and so is
\* their difference, which is never below zero
DiffNegative(diff) == FALSE

\* the argument of delayMicroseconds() chosen at lines 99..102, a uint32_t
WaitArg(diff) ==
    IF DiffNegative(diff) THEN Sub32(W32(0), diff) ELSE diff

\* delayMicroseconds(unsigned int us): on the Arduino Uno named at line 3 an
\* unsigned int has 16 bits, so the low word of the argument is waited for
DelayTaken(arg) == arg[2]

NextMaskLsbFirst(mask) ==
    IF mask = 0 THEN 1
    ELSE IF mask = 128 THEN 16
    ELSE U8(mask * 2)

SendLoopDoneEarly(i, len) == ~(i < len - 1)

\* the loop of send_data_v3 is left: i < len is false, line 190
SendLoopDone(i, len) == ~(i < len)

\* lines 105..110
NextMask(mask) ==
    IF mask = 0 THEN 16
    ELSE IF mask = 128 THEN 1
    ELSE U8(mask * 2)

\* the two levels written at lines 113 and 115 for a byte and a mask
Cell(txByte, mask) ==
    IF And8(txByte, mask) >= 1 THEN <<HIGH, LOW>> ELSE <<LOW, HIGH>>

----------------------------------------------------------------------------
(* loop(), lines 222..271                                                  *)

TickDueNoWrap(now, last) ==
    LET x == Add32(last, 1000)
    IN  now[1] > x[1] \/ (now[1] = x[1] /\ now[2] > x[2])

\* millis() - lastMillis > 1000, line 227
TickDue(now, last) == Gt32(Sub32(now, last), 1000)

TxDueNoPending(sec, pending) == (sec % V3_TX_INTERVAL_SECS) = 0

\* seconds % V3_TX_INTERVAL_SECS == 0 && tx_pending, line 238
TxDue(sec, pending) == (sec % V3_TX_INTERVAL_SECS) = 0 /\ pending

TempStepNoWrap(t) == t + 1

\* lines 263..265, in tenths of a degree
TempStep(t) == IF t + 1 > 450 THEN 190 ELSE t + 1

HumStepGe(h) == IF U8(h + 1) >= 95 THEN 30 ELSE U8(h + 1)

\* lines 266..268
HumStep(h) == IF U8(h + 1) > 95 THEN 30 ELSE U8(h + 1)

----------------------------------------------------------------------------
(* The indexes at which the 13-byte buffer is read or written              *)

\* payload_thgn801: the two memsets of lines 134 and 137 and the bytes
\* 3..12 assigned at lines 138..169
BuildIndexes == (0 .. (V3_TX_BYTES - 1)) \cup (0 .. 2) \cup (3 .. 12)

\* crc8_checksum_v3: payload[i/2] for i = 7 .. payloadNibbles + 6
CrcIndexes(n) == {i \div 2 : i \in 7 .. (n + 6)}

\* oregon_checksum_v3: payload[3], payload[4 .. end-1], and payload[end]
\* when payloadNibbles is even
OregonIndexes(n) ==
    {3} \cup (4 .. (OregonEnd(n) - 1))
        \cup (IF (n % 2) = 0 THEN {OregonEnd(n)} ELSE {})

\* the index of the byte that send_data_v3 reads next, at line 191 inside
\* the loop and at line 195 behind it
SendIndex == idx

----------------------------------------------------------------------------
(* Bounds and inputs of the program-level specifications                   *)

MaxSeconds == 107           \* ticks of the second counter in Spec
MaxSessionSeconds == 24700  \* ticks of the second counter in SpecSession
MaxWrapSeconds == 4290722   \* ticks of the second counter in SpecWrap

\* rolling codes drawn by random(0x01, 0xFE) in setup()
SetupRCodes == {1, 253}

\* millis() - lastMillis at the moment loop() is called again
PollElapsed == {1000, 1001, 1003}
SteadyElapsed == {1001}

\* microseconds spent per bit outside the two delays
BitOverheads == {4, 12}
SteadyOverheads == {4}

----------------------------------------------------------------------------
(* The program: Init is the state when setup() has returned                *)

Init ==
    /\ channel = V3_CHANNEL
    /\ rcode \in SetupRCodes
    /\ t_temp = -15
    /\ t_hum = 20
    /\ payload = ZeroBuf
    /\ seconds = 0
    /\ lastMillis = W32(0)
    /\ lastTX = W32(0)
    /\ tx_pending = TRUE
    /\ txMicros = W32(0)
    /\ txInit = FALSE
    /\ idx = 0
    /\ bitI = 0
    /\ bitMask = 0
    /\ line = <<>>
    /\ wait = W32(0)
    /\ late = FALSE
    /\ txCount = 0
    /\ txDone = 0
    /\ lastTxSec = 0
    /\ nib = V3_PAYLOAD_NIBBLES
    /\ csum = 0
    /\ ccrc = 0
    /\ clock = [us |-> W32(SetupDelayMs * 1000), ms |-> W32(SetupDelayMs), frac |-> 0]
    /\ pc = "loop"

\* millis() - lastMillis now
Elapsed == Val32(Sub32(clock.ms, lastMillis))

\* loop() is called again and again: a call made now would change nothing
Quiet == ~TickDue(clock.ms, lastMillis) /\ ~TxDue(seconds, tx_pending)

\* The values of millis() - lastMillis at which the next call of loop() that
\* the model follows is made: now if that call does something, and else
\* after the calls that change nothing, at one of the values in later.
PollTimes(later) ==
    IF Quiet THEN {e \in later : Elapsed <= e} ELSE {Elapsed}

\* the timer when loop() is called with millis() - lastMillis = e
PollClock(e) ==
    IF Elapsed < e THEN Advance(clock, (e - Elapsed) * 1000 - clock.frac) ELSE clock

\* One call of loop() that does not transmit: lines 227..238.
LoopIdle(e, maxSec) ==
    /\ pc = "loop"
    /\ LET now  == PollClock(e)
           tick == TickDue(now.ms, lastMillis)
           sec  == IF tick THEN seconds + 1 ELSE seconds
           pend == IF tick THEN TRUE ELSE tx_pending
       IN  /\ sec <= maxSec
           /\ ~TxDue(sec, pend)
           /\ clock' = now
           /\ seconds' = sec
           /\ lastMillis' = IF tick THEN now.ms ELSE lastMillis
           /\ tx_pending' = pend
    /\ UNCHANGED <<cfgVars, readVars, payload, lastTX, modVars, histVars, fnVars, pc>>

\* One call of loop() that transmits, up to the first bit: lines 227..259,
\* payload_thgn801 and send_data_v3 lines 176..189.
LoopTransmit(e, maxSec) ==
    /\ pc = "loop"
    /\ LET now  == PollClock(e)
           tick == TickDue(now.ms, lastMillis)
           sec  == IF tick THEN seconds + 1 ELSE seconds
           pend == IF tick THEN TRUE ELSE tx_pending
       IN  /\ sec <= maxSec
           /\ TxDue(sec, pend)
           /\ clock' = now
           /\ seconds' = sec
           /\ lastMillis' = IF tick THEN now.ms ELSE lastMillis
           /\ tx_pending' = FALSE
           /\ lastTX' = IF Gt32(lastTX, 0) THEN now.ms ELSE lastTX
           /\ lastTxSec' = sec
    /\ payload' = payload_thgn801(payload, channel, rcode, t_temp, t_hum)
    /\ line' = <<LOW>>
    /\ idx' = 0
    /\ bitI' = 0
    /\ bitMask' = 0
    /\ txCount' = txCount + 1
    /\ pc' = "send"
    /\ UNCHANGED <<cfgVars, readVars, txMicros, txInit, wait, late, txDone, fnVars>>

\* One pass of the bit loop of manchester_encode_v3 for payload[idx], lines
\* 95..116, with o microseconds of overhead; the function is entered with
\* bitI = 0 (bitMask = 0, and txMicros = micros() on the first call ever)
\* and left after the pass with bitI = 7.
EncodeBit(o) ==
    /\ pc = "send"
    /\ ~SendLoopDone(idx, V3_TX_BYTES)
    /\ LET base   == IF txInit THEN txMicros ELSE clock.us
           target == Add32(base, V3_PULSE_LENGHT_US * 2)
           diff   == Sub32(target, clock.us)
           arg    == WaitArg(diff)
           mask   == NextMask(IF bitI = 0 THEN 0 ELSE bitMask)
       IN  /\ txMicros' = target
           /\ txInit' = TRUE
           /\ wait' = arg
           /\ late' = (diff[1] >= Half \div 2)
           /\ bitMask' = mask
           /\ line' = line \o Cell(payload[idx], mask)
           /\ clock' = Advance(clock, DelayTaken(arg) + PulseOnUs + o)
    /\ bitI' = (bitI + 1) % 8
    /\ idx' = IF bitI = 7 THEN idx + 1 ELSE idx
    /\ UNCHANGED <<cfgVars, readVars, payload, schedVars, histVars, fnVars, pc>>

\* The end of send_data_v3, lines 195..198, and of loop(), lines 261..269.
\* Line 195 reads payload[i] with i = len, the byte behind the 13-byte
\* buffer: bit 3 of that byte is any value, chosen by past.
Finish(past) ==
    /\ pc = "send"
    /\ SendLoopDone(idx, V3_TX_BYTES)
    /\ clock' = IF And8(past, 8) = 0 THEN Advance(clock, V3_PULSE_LENGHT_US) ELSE clock
    /\ line' = line \o <<LOW>>
    /\ t_temp' = TempStep(t_temp)
    /\ t_hum' = HumStep(t_hum)
    /\ txDone' = txDone + 1
    /\ pc' = "loop"
    /\ UNCHANGED <<cfgVars, payload, schedVars, txMicros, txInit, idx, bitI, bitMask,
                   wait, late, txCount, lastTxSec, fnVars>>

Next ==
    \/ \E e \in PollTimes(PollElapsed) : LoopIdle(e, MaxSeconds)
    \/ \E e \in PollTimes(PollElapsed) : LoopTransmit(e, MaxSeconds)
    \/ \E o \in BitOverheads : EncodeBit(o)
    \/ \E past \in {0, 8} : Finish(past)

Spec == Init /\ [][Next]_vars

\* A long session with steady timing: loop() is called as soon as the second
\* has passed, every bit takes the same overhead.
NextSession ==
    \/ \E e \in PollTimes(SteadyElapsed) : LoopIdle(e, MaxSessionSeconds)
    \/ \E e \in PollTimes(SteadyElapsed) : LoopTransmit(e, MaxSessionSeconds)
    \/ \E o \in SteadyOverheads : EncodeBit(o)
    \/ \E past \in {0, 8} : Finish(past)

SpecSession == Init /\ [][NextSession]_vars

\* the levels written during the frame of payload p, lines 189..198
FrameLine(p) ==
    [k \in 1 .. (2 + 16 * V3_TX_BYTES) |->
        IF k = 1 \/ k = 2 + 16 * V3_TX_BYTES THEN LOW
        ELSE LET c == (k - 2) \div 2
             IN  Cell(p[c \div 8], <<16, 32, 64, 128, 1, 2, 4, 8>>[(c % 8) + 1])[((k - 2) % 2) + 1]]

\* The program 49.7 days into the steady session of SpecSession, when
\* millis() is about to overflow: the tick 4290676 has just been taken at
\* millis() = 4290676 * 1001 = 2^32 - 620, the frame 80957 was sent at tick
\* 4290668 from the readings 29.2 degC and 60 %, and the next frame is due
\* at tick 4290721. micros() has overflowed many times by then.
InitWrap ==
    /\ channel = V3_CHANNEL
    /\ rcode \in SetupRCodes
    /\ t_temp = 293
    /\ t_hum = 61
    /\ payload = payload_thgn801(ZeroBuf, V3_CHANNEL, rcode, 292, 60)
    /\ seconds = 4290676
    /\ lastMillis = <<65535, 64916>>
    /\ lastTX = W32(0)
    /\ tx_pending = TRUE
    /\ txMicros = <<59856, 19216>>
    /\ txInit = TRUE
    /\ idx = V3_TX_BYTES
    /\ bitI = 0
    /\ bitMask = 8
    /\ line = FrameLine(payload)
    /\ wait = <<59986, 570>>
    /\ late = TRUE
    /\ txCount = 80957
    /\ txDone = 80957
    /\ lastTxSec = 4290668
    /\ nib = V3_PAYLOAD_NIBBLES
    /\ csum = 0
    /\ ccrc = 0
    /\ clock = [us |-> <<65526, 35360>>, ms |-> <<65535, 64916>>, frac |-> 0]
    /\ pc = "loop"

\* the calls of loop() around the overflow of millis(), with the timing
\* jitter of Spec
NextWrap ==
    \/ \E e \in PollTimes(PollElapsed) : LoopIdle(e, MaxWrapSeconds)
    \/ \E e \in PollTimes(PollElapsed) : LoopTransmit(e, MaxWrapSeconds)
    \/ \E o \in BitOverheads : EncodeBit(o)
    \/ \E past \in {0, 8} : Finish(past)

SpecWrap == InitWrap /\ [][NextWrap]_vars

\* send_data_v3 is straight-line code around a counted loop and every delay
\* in it is finite: a frame that has been started goes on, bit by bit, and
\* returns. loop() itself is called again only when the caller does so.
SpecLive ==
    /\ Spec
    /\ WF_vars(\E o \in BitOverheads : EncodeBit(o))
    /\ WF_vars(\E past \in {0, 8} : Finish(past))

----------------------------------------------------------------------------
(* Properties of the payload builder and the checksums (SpecFn)            *)

Built == pc \in {"built", "rebuilt", "builtsummed"}
Summed == pc \in {"summed", "builtsummed"}

LowNib(x) == x % 16
HighNib(x) == x \div 16

\* the receiver's reading of the temperature and humidity nibbles
DecodeTemp(p) ==
    (IF BitOf(p[9], 7) = 1 THEN -1 ELSE 1)
        * (100 * LowNib(p[8]) + 10 * HighNib(p[8]) + LowNib(p[7]))
DecodeHum(p) == 10 * HighNib(p[10]) + LowNib(p[9])

\* C1: for every temperature in -999..999 tenths and every humidity in
\* 0..100, decoding the payload returned by payload_thgn801 gives back
\* exactly the temperature and the humidity it was built from.
C1_RoundTrip ==
    (Built /\ t_temp \in -999 .. 999 /\ t_hum \in 0 .. 100)
        => (DecodeTemp(payload) = t_temp /\ DecodeHum(payload) = t_hum)

GoldenInputs ==
    pc = "built" /\ channel = 1 /\ rcode = 0 /\ t_temp = -15 /\ t_hum = 20

GoldenBytes == <<255, 255, 255, 175, 130, 65, 0, 5, 16, 128, 32, 226, 115>>

\* C2 as stated: for rolling code 0x00, channel 1, temperature -1.5 and
\* humidity 20 the payload starts with the bytes FF FF FF followed by the
\* bytes A0 F8 24.
C2_GoldenAsStated ==
    GoldenInputs
        => /\ payload[0] = 255 /\ payload[1] = 255 /\ payload[2] = 255
           /\ payload[3] = 160 /\ payload[4] = 248 /\ payload[5] = 36

\* C2 amended: for rolling code 0x00, channel 1, temperature -1.5 and
\* humidity 20 the payload is FF FF FF AF 82 41 00 05 10 80 20 E2 73: the
\* sync nibble A and the type nibbles F, 8, 2, 4 follow each other nibble
\* by nibble, the channel nibble 1 is the low nibble of byte 5.
C2_Golden ==
    GoldenInputs => payload = [i \in BufIndex |-> GoldenBytes[i + 1]]

C2_Witness == GoldenInputs /\ payload[3] = 175 /\ payload[12] = 115

\* C4: whatever an earlier call or any other writer left in the static
\* buffer, the payload returned for given arguments is the payload built
\* from those arguments on a cleared buffer; hence two calls with the same
\* arguments return byte-identical payloads.
C4_Idempotent ==
    Built => payload = payload_thgn801(ZeroBuf, channel, rcode, t_temp, t_hum)

C4_Witness == pc = "rebuilt" /\ t_hum = 47 /\ t_temp = 271 /\ payload[7] = 1

RECURSIVE SumBytes(_, _, _)
\* the sum of both nibbles of the bytes from..to-1 of buf
SumBytes(buf, from, to) ==
    IF from >= to THEN 0
    ELSE HighNib(buf[from]) + LowNib(buf[from]) + SumBytes(buf, from + 1, to)

\* the simple checksum of the protocol description: low nibble of byte 3,
\* both nibbles of bytes 4..E-1 with E = (28 + 4*count)/8, the high nibble
\* of byte E when withTail, the 8-bit sum returned with its nibbles swapped
RefSimple(buf, count, withTail) ==
    LET E == (28 + 4 * count) \div 8
        s == (LowNib(buf[3]) + SumBytes(buf, 4, E)
                + (IF withTail THEN HighNib(buf[E]) ELSE 0)) % 256
    IN  LowNib(s) * 16 + HighNib(s)

\* C5 as stated: oregon_checksum_v3 adds the high nibble of the byte after
\* the summed bytes if the nibble count is odd.
C5_OddTail ==
    Summed => csum = RefSimple(payload, nib, (nib % 2) = 1)

\* C5 amended: oregon_checksum_v3 adds the high nibble of the byte after
\* the summed bytes if the nibble count is even, and nothing more if it is
\* odd (as it is for count = 15).
C5_EvenTail ==
    Summed => csum = RefSimple(payload, nib, (nib % 2) = 0)

C5_Witness ==
    /\ pc = "builtsummed" /\ nib = 15
    /\ HighNib(payload[11]) # 0 /\ csum = payload[11]

\* one shift-left of the register with XOR 0x07 when the top bit was set
RefShift(reg) ==
    IF reg >= 128 THEN Xor8((reg - 128) * 2, 7) ELSE reg * 2

\* nibble i of the buffer: the high nibble of byte i/2 when i is even
RefNibble(buf, i) ==
    IF i % 2 = 0 THEN HighNib(buf[i \div 2]) ELSE LowNib(buf[i \div 2])

RECURSIVE RefCrcFold(_, _, _, _)
\* the register after the nibbles i..last have gone in, 4 shifts each
RefCrcFold(buf, i, last, reg) ==
    IF i > last \/ reg < 0 THEN reg
    ELSE RefCrcFold(buf, i + 1, last,
            RefShift(RefShift(RefShift(RefShift(Xor8(reg, RefNibble(buf, i)))))))

RefCrc(buf, count) ==
    LET r == RefCrcFold(buf, 7, count + 6, 0)
        f == RefShift(RefShift(RefShift(RefShift(r))))
    IN  LowNib(f) * 16 + HighNib(f)

\* C6: crc8_checksum_v3 is the reference CRC: from 0, each nibble 7..count+6
\* XORed in and followed by 4 shift rounds with polynomial 0x07, then one
\* more pass of 4 rounds with no nibble, returned with its nibbles swapped.
C6_Crc == Summed => ccrc = RefCrc(payload, nib)

C6_Witness == pc = "summed" /\ nib = 18 /\ payload[12] # 0 /\ ccrc # 0

\* C7: in every payload built, bytes 0..2 are 0xFF, byte 3 is 0xAF, byte 4
\* is 0x82, byte 5 is 0x4 over min(channel, 15), byte 6 is the rolling
\* code, the high nibble of byte 7 and the low nibble of byte 10 are 0.
C7_Layout ==
    Built =>
        /\ payload[0] = 255 /\ payload[1] = 255 /\ payload[2] = 255
        /\ payload[3] = 175
        /\ payload[4] = 130
        /\ HighNib(payload[5]) = 4
        /\ LowNib(payload[5]) = (IF channel < 15 THEN channel ELSE 15)
        /\ payload[6] = rcode
        /\ HighNib(payload[7]) = 0
        /\ LowNib(payload[10]) = 0

C7_Witness == pc = "built" /\ channel = 17 /\ payload[5] = 79

\* the payload with other values in the preamble bytes 0..2 and in the two
\* checksum bytes 11 and 12
Outside(p, x) ==
    [p EXCEPT ![0] = x, ![1] = 255 - x, ![2] = (x * 7) % 256,
              ![11] = (p[11] + x + 1) % 256, ![12] = 255 - p[12]]

OutsideValues == {0, 90, 165, 255}

\* C17: recomputing both checksums with count 15 on the finished payload
\* gives the values stored in bytes 11 and 12, and neither value changes
\* when the preamble bytes 0..2 or the checksum bytes 11 and 12 change.
C17_SelfConsistent ==
    (pc = "builtsummed" /\ nib = V3_PAYLOAD_NIBBLES) =>
        /\ csum = payload[11]
        /\ ccrc = payload[12]
        /\ \A x \in OutsideValues :
              /\ oregon_checksum_v3(Outside(payload, x), nib) = csum
              /\ crc8_checksum_v3(Outside(payload, x), nib) = ccrc

C17_Witness ==
    /\ pc = "builtsummed" /\ nib = V3_PAYLOAD_NIBBLES /\ rcode = 253
    /\ payload[11] # 0 /\ payload[12] # 0
    /\ csum = payload[11] /\ ccrc = payload[12]

\* the conventional MSB-first CRC-8, polynomial 0x07, initial value 0, fed
\* nibble by nibble: the nibble is XORed into the top four bits of the
\* register, then the register is shifted 4 times; no pass without data
RECURSIVE StdCrcFold(_, _, _, _)
StdCrcFold(buf, i, last, reg) ==
    IF i > last \/ reg < 0 THEN reg
    ELSE StdCrcFold(buf, i + 1, last,
            RefShift(RefShift(RefShift(RefShift(Xor8(reg, RefNibble(buf, i) * 16))))))

StdCrc8(buf, count) == StdCrcFold(buf, 7, count + 6, 0)

\* C18: before its final nibble swap, the result of crc8_checksum_v3 is the
\* conventional CRC-8 (polynomial 0x07, initial value 0) of the nibbles
\* 7..count+6 of the buffer (7..21 for count 15).
C18_StandardCrc ==
    Summed => SwapNibbles(ccrc) = StdCrc8(payload, nib)

C18_Witness ==
    /\ pc = "summed" /\ nib = V3_PAYLOAD_NIBBLES /\ payload[10] # 0
    /\ ccrc # 0 /\ SwapNibbles(ccrc) = StdCrc8(payload, nib)

----------------------------------------------------------------------------
(* Properties of the modulator and the scheduler (Spec, SpecSession)       *)

\* the bit of a byte sent in the m-th cell of that byte
BitOrder == <<4, 5, 6, 7, 0, 1, 2, 3>>

\* the number of bit cells written in the current frame
CellsSent == idx * 8 + bitI

\* the k-th cell (from 0) of the frame: line[1] is the LOW of send_data_v3
CellAt(k) == <<line[2 * k + 2], line[2 * k + 3]>>

ExpectedCell(k) ==
    IF BitOf(payload[k \div 8], BitOrder[(k % 8) + 1]) = 1
    THEN <<1, 0>> ELSE <<0, 1>>

\* a receiver's reading of the cells of byte j
DecodedBit(k) == IF CellAt(k) = <<1, 0>> THEN 1 ELSE 0
DecodedByte(j) ==
    DecodedBit(8 * j) * 16 + DecodedBit(8 * j + 1) * 32
    + DecodedBit(8 * j + 2) * 64 + DecodedBit(8 * j + 3) * 128
    + DecodedBit(8 * j + 4) * 1 + DecodedBit(8 * j + 5) * 2
    + DecodedBit(8 * j + 6) * 4 + DecodedBit(8 * j + 7) * 8

\* C3: during and after a frame the writes of the bit loop are exactly 8
\* cells per byte sent, in the order bit 4, 5, 6, 7, 0, 1, 2, 3 of each
\* byte, HIGH-LOW for a 1 and LOW-HIGH for a 0, and decoding the cells gives
\* back the bytes of the payload.
C3_Manchester ==
    (txCount > 0) =>
        /\ Len(line) = 1 + 2 * CellsSent + (IF pc = "loop" THEN 1 ELSE 0)
        /\ \A k \in 0 .. (CellsSent - 1) : CellAt(k) = ExpectedCell(k)
        /\ \A j \in 0 .. (idx - 1) : DecodedByte(j) = payload[j]

C3_Witness == txDone = 2 /\ pc = "loop" /\ idx = 13 /\ Len(line) = 210

C8_Step ==
    /\ seconds' \in {seconds, seconds + 1}
    /\ txCount' \in {txCount, txCount + 1}
    /\ (txCount' = txCount + 1)
          <=> ((seconds' % 53) = 0 /\ (seconds' # seconds \/ txCount = 0))
    /\ (txCount' = txCount + 1) => (lastTxSec' = seconds' /\ pc' = "send")
    /\ (txCount' = txCount + 1 /\ txCount > 0) => seconds' = lastTxSec + 53

\* C8: a step starts a transmission exactly when it brings elapsed-seconds to
\* a multiple of 53 (or is the first poll, at 0), never otherwise and never
\* twice for one value; 53 ticks lie between consecutive transmissions.
C8_Scheduler == [][C8_Step]_vars

C8_Witness == txCount = 3 /\ txDone = 3 /\ seconds = 107 /\ lastTxSec = 106

C9_Step ==
    IF txDone' # txDone
    THEN /\ pc = "send" /\ pc' = "loop"
         /\ CellsSent = 104
         /\ payload = payload_thgn801(ZeroBuf, channel, rcode, t_temp, t_hum)
         /\ t_hum' = (IF t_hum + 1 <= 95 THEN t_hum + 1 ELSE 30)
         /\ t_temp' = (IF t_temp + 1 <= 450 THEN t_temp + 1 ELSE 190)
    ELSE t_hum' = t_hum /\ t_temp' = t_temp

\* C9: the readings change only in the step that ends a transmission, after
\* the payload built from them has been sent: humidity h becomes h+1 if
\* h+1 <= 95 and 30 otherwise, temperature t becomes t+0.1 if t+0.1 <= 45.0
\* and 19.0 otherwise.
C9_Increment == [][C9_Step]_vars

C9_Witness == txDone = 466 /\ t_temp = 190 /\ t_hum = 90

\* C10: the wait requested before a bit is zero when micros() has reached
\* or passed the target, and is never a wrapped-around duration: it never
\* exceeds one bit period of 976 us.
C10_WaitBounded ==
    (txCount > 0 /\ CellsSent > 0) =>
        /\ late => wait = <<0, 0>>
        /\ wait[1] = 0 /\ wait[2] <= 976

C11_Step ==
    (pc = "send" /\ idx = 0 /\ bitI = 0 /\ bitI' = 1)
        => /\ txMicros' = Add32(clock.us, V3_PULSE_LENGHT_US * 2)
           /\ wait' = W32(V3_PULSE_LENGHT_US * 2)

\* C11: in the first pass of the bit loop of every frame, of the second and
\* later transmissions as of the first, the target is the current value of
\* micros() plus one bit period, so the wait before the first cell is 976 us.
C11_FrameStart == [][C11_Step]_vars

C12_Step ==
    (pc = "send" /\ pc' = "loop")
        => ((clock' # clock) <=> (And8(payload[V3_TX_BYTES - 1], 8) = 0))

\* C12: the extra delay of 488 us at the end of send_data_v3 is taken if and
\* only if bit 3 of the last byte sent, payload[12], is clear.
C12_ExtraDelay == [][C12_Step]_vars

C14_Step ==
    (pc = "loop" /\ pc' = "send") => lastTX' = clock'.ms

\* C14: the call of loop() that starts a transmission leaves in lastTX the
\* value of millis() of that call.
C14_LastTX == [][C14_Step]_vars

C13_Step ==
    (pc = "send") =>
        /\ line[1] = LOW
        /\ seconds' = seconds /\ lastMillis' = lastMillis
        /\ tx_pending' = tx_pending /\ payload' = payload
        /\ (pc' = "send") =>
              /\ t_temp' = t_temp /\ t_hum' = t_hum
              /\ CellsSent' = CellsSent + 1 /\ CellsSent' <= V3_TX_BYTES * 8
              /\ Len(line') = Len(line) + 2
        /\ (pc' = "loop") =>
              /\ CellsSent = V3_TX_BYTES * 8
              /\ line' = line \o <<LOW>>

\* C13: a transmission that has been started runs to completion: the line
\* is LOW before the first bit, the 104 cells follow one another with no
\* tick, reading update or payload rebuild in between, and send_data_v3
\* eventually returns with the line LOW.
C13_Completion ==
    /\ [][C13_Step]_vars
    /\ (pc = "send") ~> (pc = "loop" /\ Len(line) = 2 + 16 * V3_TX_BYTES /\ line[Len(line)] = LOW)

C13_Witness == txDone = 3 /\ pc = "loop" /\ Len(line) = 210 /\ line[1] = LOW /\ line[210] = LOW

\* millis() - lastMillis as the call of loop() made in this step sees it
C15_Elapsed == Val32(Sub32(clock'.ms, lastMillis))

\* what the call does when it takes the tick (the flag may be cleared again
\* by the transmission started in the same call) and when it does not
C15_Ticked ==
    /\ seconds' = seconds + 1
    /\ lastMillis' = clock'.ms
    /\ tx_pending' \/ pc' = "send"
C15_NotTicked ==
    /\ seconds' = seconds
    /\ lastMillis' = lastMillis
    /\ tx_pending' = tx_pending \/ pc' = "send"

C15_StepGe ==
    (pc = "loop") => IF C15_Elapsed >= 1000 THEN C15_Ticked ELSE C15_NotTicked

C15_StepGt ==
    (pc = "loop") => IF C15_Elapsed > 1000 THEN C15_Ticked ELSE C15_NotTicked

\* C15 as stated: a call of loop() takes the second tick (one more second,
\* reference re-anchored to millis(), pending set) if and only if at least
\* 1000 ms have elapsed since the last tick, as an unsigned 32-bit difference.
C15_TickAtLeast == [][C15_StepGe]_vars

\* C15 amended: a call of loop() takes the second tick if and only if more
\* than 1000 ms have elapsed since the last tick, the elapsed time being the
\* unsigned 32-bit difference, also when millis() has overflowed in between.
C15_TickMoreThan == [][C15_StepGt]_vars

\* the tick taken across the overflow of millis(), and the frame after it
C15_Witness ==
    /\ seconds = 4290721 /\ txDone = 80958 /\ pc = "loop"
    /\ lastMillis[1] = 0 /\ clock.ms[1] = 0

\* C16: in every build-and-transmit cycle every index at which
\* payload_thgn801, the two checksum functions (count 15) and send_data_v3
\* read or write the buffer lies in 0..12.
C16_InBounds ==
    (txCount > 0) =>
        /\ BuildIndexes \subseteq BufIndex
        /\ CrcIndexes(V3_PAYLOAD_NIBBLES) \subseteq BufIndex
        /\ OregonIndexes(V3_PAYLOAD_NIBBLES) \subseteq BufIndex
        /\ (pc = "send") => SendIndex \in BufIndex

\* C19: through a whole session from -1.5 degC and 20 % the temperature
\* stays within -1.5..45.0 degC and the humidity within 20..95 %, so that in
\* every payload sent the temperature and humidity nibbles are decimal
\* digits, the sign nibble is 0 or 8, and neither t10 nor the humidity
\* reaches the values whose digits wrap.
C19_Domain ==
    /\ t_temp \in -15 .. 450
    /\ t_hum \in 20 .. 95
    /\ T10(t_temp) <= MaxTenths /\ t_hum < 100
    /\ (txCount > 0) =>
          /\ LowNib(payload[7]) <= 9
          /\ HighNib(payload[8]) <= 9 /\ LowNib(payload[8]) <= 9
          /\ LowNib(payload[9]) <= 9 /\ HighNib(payload[10]) <= 9
          /\ HighNib(payload[9]) \in {0, 8}
          /\ DecodeTemp(payload) \in -15 .. 450
          /\ DecodeHum(payload) \in 20 .. 95

C19_Witness ==
    /\ pc = "send" /\ txCount = 466 /\ t_temp = 450
    /\ payload[8] = 84 /\ LowNib(payload[7]) = 0 /\ HighNib(payload[9]) = 0

====
